---- MODULE Spec2Model ----
(***************************************************************************)
(* A model of the vroomy/plugins registry: identifier parsing, the         *)
(* Plugin record, and the Plugins registry with its lock, its batch        *)
(* operations and its shutdown.                                            *)
(*                                                                         *)
(* Strings are sequences of one-character strings, so that splitting,      *)
(* prefix tests and path handling are computed as the Go code computes     *)
(* them.  The alphabet of the identifiers the model draws is               *)
(*   a-z 0-9 / . - @ # ( ) , ? and the blank;                              *)
(* it holds no '%', ':', '[' and no control byte, so url.Parse's escape    *)
(* and port handling never come into play.                                 *)
(***************************************************************************)
EXTENDS Integers, Sequences, FiniteSets, TLC

(***************************************************************************)
(* Go's strings, path and path/filepath functions, as far as used.         *)
(***************************************************************************)
Str0 == << >>

\* F applied to the value of v, which is computed once
With(v, F(_)) == CHOOSE r \in { F(w) : w \in { v } } : TRUE

HasPrefix(s, pre) ==
    /\ Len(pre) <= Len(s)
    /\ SubSeq(s, 1, Len(pre)) = pre

\* the positions at which sep occurs in s
Occurrences(s, sep) ==
    With(s, LAMBDA v :
        { i \in 1..(Len(v) - Len(sep) + 1) : SubSeq(v, i, i + Len(sep) - 1) = sep })

\* strings.Index(s, sep) + 1: position of the first occurrence, 0 if none
IndexOf(s, sep) ==
    With(Occurrences(s, sep), LAMBDA hits :
        IF hits = {} THEN 0 ELSE CHOOSE i \in hits : \A j \in hits : i <= j)

\* strings.LastIndex(s, sep) + 1
LastIndexOf(s, sep) ==
    With(Occurrences(s, sep), LAMBDA hits :
        IF hits = {} THEN 0 ELSE CHOOSE i \in hits : \A j \in hits : i >= j)

\* strings.Split(s, sep) for a non-empty sep
RECURSIVE Split(_, _)
Split(s, sep) ==
    With(s, LAMBDA v : With(IndexOf(v, sep), LAMBDA i :
        IF i = 0 THEN << v >>
        ELSE << SubSeq(v, 1, i - 1) >> \o Split(SubSeq(v, i + Len(sep), Len(v)), sep)))

\* strings.Cut(s, sep): before and after the first occurrence
CutBefore(s, sep) ==
    With(s, LAMBDA v : With(IndexOf(v, sep), LAMBDA i :
        IF i = 0 THEN v ELSE SubSeq(v, 1, i - 1)))

CutAfter(s, sep) ==
    With(s, LAMBDA v : With(IndexOf(v, sep), LAMBDA i :
        IF i = 0 THEN Str0 ELSE SubSeq(v, i + Len(sep), Len(v))))

\* strings.Join(elems, sep)
RECURSIVE JoinStr(_, _)
JoinStr(elems, sep) ==
    With(elems, LAMBDA es :
        IF Len(es) = 0 THEN Str0
        ELSE IF Len(es) = 1 THEN es[1]
        ELSE es[1] \o sep \o JoinStr(Tail(es), sep))

\* path.Split(p): the part after the final slash
PathSplitFile(p) ==
    With(p, LAMBDA v : SubSeq(v, LastIndexOf(v, << "/" >>) + 1, Len(v)))

\* filepath.Ext(p): the suffix from the final dot of the final element
FilepathExt(p) ==
    With(PathSplitFile(p), LAMBDA name : With(LastIndexOf(name, << "." >>), LAMBDA i :
        IF i = 0 THEN Str0 ELSE SubSeq(name, i, Len(name))))

\* the element stack of path.Clean: "." and empty elements dropped, ".." pops
RECURSIVE CleanElems(_, _, _)
CleanElems(elems, acc, rooted) ==
    With(<< elems, acc >>, LAMBDA ea :
        IF Len(ea[1]) = 0 THEN ea[2]
        ELSE LET e    == Head(ea[1])
                 rest == Tail(ea[1])
                 out  == ea[2]
             IN IF e = Str0 \/ e = << "." >> THEN CleanElems(rest, out, rooted)
                ELSE IF e = << ".", "." >>
                     THEN IF Len(out) > 0 /\ out[Len(out)] # << ".", "." >>
                          THEN CleanElems(rest, SubSeq(out, 1, Len(out) - 1), rooted)
                          ELSE IF rooted THEN CleanElems(rest, out, rooted)
                               ELSE CleanElems(rest, Append(out, e), rooted)
                     ELSE CleanElems(rest, Append(out, e), rooted))

\* filepath.Clean(p) on a slash-separated path
FilepathClean(p) ==
    With(p, LAMBDA v :
        IF v = Str0 THEN << "." >>
        ELSE With(JoinStr(CleanElems(Split(v, << "/" >>), << >>, v[1] = "/"), << "/" >>),
                  LAMBDA body :
                      IF v[1] = "/" THEN << "/" >> \o body
                      ELSE IF body = Str0 THEN << "." >> ELSE body))

\* filepath.Join(a, b): empty elements ignored, the result cleaned
FilepathJoin(a, b) ==
    IF a = Str0 /\ b = Str0 THEN Str0
    ELSE IF a = Str0 THEN FilepathClean(b)
    ELSE IF b = Str0 THEN FilepathClean(a)
    ELSE FilepathClean(a \o << "/" >> \o b)

\* filepath.Base(p): trailing slashes stripped, then the last element
RECURSIVE StripTrailingSlashes(_)
StripTrailingSlashes(p) ==
    With(p, LAMBDA v :
        IF Len(v) > 0 /\ v[Len(v)] = "/" THEN StripTrailingSlashes(SubSeq(v, 1, Len(v) - 1))
        ELSE v)

FilepathBase(p) ==
    With(p, LAMBDA v :
        IF v = Str0 THEN << "." >>
        ELSE With(StripTrailingSlashes(v), LAMBDA q :
                 IF q = Str0 THEN << "/" >> ELSE PathSplitFile(q)))

(***************************************************************************)
(* net/url.Parse("http://" + raw), restricted to the model's alphabet:     *)
(* the fragment is cut at the first '#', the query at the first '?', the   *)
(* authority ends at the first '/', the host is what follows the last '@'  *)
(* of the authority.  Parsing fails on a blank in the host or in the       *)
(* userinfo.                                                               *)
(***************************************************************************)
UrlAuthority(raw) ==
    CutBefore(CutBefore(CutBefore(raw, << "#" >>), << "?" >>), << "/" >>)

UrlParseOk(raw) ==
    With(UrlAuthority(raw), LAMBDA auth : \A i \in 1..Len(auth) : auth[i] # " ")

UrlPath(raw) ==
    With(CutBefore(CutBefore(raw, << "#" >>), << "?" >>), LAMBDA rest :
        With(IndexOf(rest, << "/" >>), LAMBDA i :
            IF i = 0 THEN Str0 ELSE SubSeq(rest, i, Len(rest))))

UrlFragment(raw) == CutAfter(raw, << "#" >>)

(***************************************************************************)
(* utils.go                                                                *)
(***************************************************************************)
\* ParseKey: the key before " as ", and the explicit or derived alias
ParseKey(key) ==
    With(Split(key, << " ", "a", "s", " " >>), LAMBDA spl :
        LET newKey == spl[1]
            name   == PathSplitFile(newKey)
            a1     == Split(name, << "-" >>)[1]
            a2     == Split(a1, << "@" >>)[1]
            a3     == Split(a2, << "#" >>)[1]
        IN [ newKey |-> newKey,
             alias  |-> IF Len(spl) > 1 THEN spl[2] ELSE a3 ])

\* isGitReference: the key parses as a URL behind an implied scheme
isGitReference(handlerKey) == UrlParseOk(handlerKey)

stripEmpty(ss) == SelectSeq(ss, LAMBDA str : Len(str) # 0)

\* getGitURLParts: outcome "ok", "err" (url.Parse failed) or "panic" (parts[0] or
\* parts[1] indexed out of range)
getGitURLParts(gitURL) ==
    With(Split(gitURL, << "@" >>), LAMBDA comps :
        With(stripEmpty(Split(UrlPath(comps[1]), << "/" >>)), LAMBDA parts :
            IF ~UrlParseOk(comps[1])
            THEN [ outcome |-> "err", gitUser |-> Str0, repoName |-> Str0, branch |-> Str0 ]
            ELSE IF Len(parts) < 2
            THEN [ outcome |-> "panic", gitUser |-> Str0, repoName |-> Str0, branch |-> Str0 ]
            ELSE [ outcome  |-> "ok",
                   gitUser  |-> parts[1],
                   repoName |-> parts[2],
                   branch   |-> IF Len(comps) > 1 THEN comps[2]
                                ELSE UrlFragment(comps[1]) ]))

getPluginKey(filename) == Split(FilepathBase(filename), << "." >>)[1]

removeBranchHash(gitURL) ==
    Split(Split(gitURL, << "#" >>)[1], << "@" >>)[1]

\* a repository key that keeps the whole source path
gitRepoWholeURL(gitURL) == gitURL

\* gitRepoFromURL: a nested plugin source truncated to host/user/repo
gitRepoFromURL(gitURL) ==
    With(Split(gitURL, << "/" >>), LAMBDA comps :
        IF Len(comps) > 3
        THEN With(stripEmpty(<< comps[1], comps[2], comps[3] >>), LAMBDA elems :
                 IF Len(elems) = 0 THEN Str0 ELSE FilepathClean(JoinStr(elems, << "/" >>)))
        ELSE gitURL)

isLocal(path) == HasPrefix(path, << ".", "/" >>)

\* getHandlerParts: outcome "ok", "err" (ErrExpectedEndParen) or "panic" (spl[1]
\* indexed out of range, or the last byte of an empty argument string read)
getHandlerParts(handlerKey) ==
    With(Split(handlerKey, << "." >>), LAMBDA spl :
        IF Len(spl) < 2
        THEN [ outcome |-> "panic", key |-> Str0, handler |-> Str0, args |-> << >> ]
        ELSE With(Split(spl[2], << "(" >>), LAMBDA hs :
                 IF Len(hs) = 1
                 THEN [ outcome |-> "ok", key |-> spl[1], handler |-> spl[2], args |-> << >> ]
                 ELSE IF Len(hs[2]) = 0
                 THEN [ outcome |-> "panic", key |-> Str0, handler |-> Str0, args |-> << >> ]
                 ELSE IF hs[2][Len(hs[2])] # ")"
                 THEN [ outcome |-> "err", key |-> spl[1], handler |-> hs[1], args |-> << >> ]
                 ELSE [ outcome |-> "ok", key |-> spl[1], handler |-> hs[1],
                        args |-> Split(SubSeq(hs[2], 1, Len(hs[2]) - 1), << "," >>) ]))

(***************************************************************************)
(* The Plugin record (newPlugin).  p is the *plugin.Plugin handle and cm   *)
(* the goloader code module; both are nil in a new record.                 *)
(***************************************************************************)
NilHandle == [ isNil |-> TRUE, Close |-> "absent" ]
NilCM == [ loaded |-> FALSE, Syms |-> {} ]
SoExt == << ".", "s", "o" >>

PluginRec(importKey, alias, gitURL, filename, branch, update) ==
    [ importKey |-> importKey, alias |-> alias, gitURL |-> gitURL,
      filename |-> filename, branch |-> branch, update |-> update,
      p |-> NilHandle, cm |-> NilCM ]

NoPlugin == PluginRec(Str0, Str0, Str0, Str0, Str0, FALSE)

\* newPlugin: outcome "ok" with the record, "err" or "panic"
newPlugin(dir, importKey, update) ==
    With(ParseKey(importKey), LAMBDA pk :
    LET key   == pk.newKey
        parts == getGitURLParts(key)
        alias == IF Len(pk.alias) = 0 THEN parts.repoName ELSE pk.alias
    IN IF isGitReference(key)
       THEN IF parts.outcome # "ok"
            THEN [ outcome |-> parts.outcome, err |-> "parse", pi |-> NoPlugin ]
            ELSE [ outcome |-> "ok", err |-> "",
                   pi |-> PluginRec(importKey, alias, removeBranchHash(key),
                                    FilepathJoin(dir, alias \o SoExt), parts.branch, update) ]
       ELSE IF FilepathExt(key) = SoExt
            THEN [ outcome |-> "ok", err |-> "",
                   pi |-> PluginRec(importKey,
                                    IF Len(pk.alias) = 0 THEN getPluginKey(key) ELSE pk.alias,
                                    Str0, key, Str0, update) ]
            ELSE [ outcome |-> "err", err |-> "plugin type not supported", pi |-> NoPlugin ])

(***************************************************************************)
(* Bounds and inputs of the registry model.                                *)
(***************************************************************************)
MaxRecords == 2
MaxCalls == 3
NumWorkers == 2

Callers == { "t1", "t2" }

Dir == << "d" >>

\* h/u/a                  alias a
KeyA == << "h", "/", "u", "/", "a" >>
\* h/u/a-b@v1             another raw key, alias a by defaulting, version v1
KeyAB == << "h", "/", "u", "/", "a", "-", "b", "@", "v", "1" >>
\* h/u/c/x as a           another raw key, explicit alias a
KeyCasA == << "h", "/", "u", "/", "c", "/", "x", " ", "a", "s", " ", "a" >>
\* h/u/c#dev              alias c, branch dev
KeyC == << "h", "/", "u", "/", "c", "#", "d", "e", "v" >>
\* "h x": no URL (blank in the host) and no .so extension
KeyBad == << "h", " ", "x" >>

Keys == { KeyA, KeyAB, KeyCasA, KeyC, KeyBad }

\* the registrations made: an import key and the update flag
Registrations ==
    { << KeyA, FALSE >>, << KeyA, TRUE >>, << KeyAB, FALSE >>, << KeyCasA, TRUE >>,
      << KeyC, FALSE >>, << KeyBad, FALSE >> }

\* the aliases asked for: one that gets registered, one that never is
Aliases == { << "a" >>, << "z" >> }

(***************************************************************************)
(* Error values.  rec is the position of the record an error stems from    *)
(* (0 when it stems from no record); alias is the alias the message text   *)
(* names, empty when the text names none.                                  *)
(***************************************************************************)
Error(kind, rec, alias) == [ kind |-> kind, rec |-> rec, alias |-> alias, errs |-> << >> ]

\* the nil error
Nil == Error("nil", 0, Str0)

ErrIsClosed == Error("ErrIsClosed", 0, Str0)
ErrPluginKeyExists == Error("ErrPluginKeyExists", 0, Str0)

\* what a caller holds when the call ended in an unrecovered panic, and before its
\* first call has returned
Panicked == Error("panic", 0, Str0)
NoReturn == Error("none", 0, Str0)

\* errors.ErrorList: Push drops nil, Err is nil for an empty list
Push(errs, err) == IF err = Nil THEN errs ELSE Append(errs, err)

ErrOf(errs) ==
    IF Len(errs) = 0 THEN Nil
    ELSE [ kind |-> "list", rec |-> 0, alias |-> Str0, errs |-> errs ]

(***************************************************************************)
(* pluginslice (its file is not among the sources): append refuses an      *)
(* alias that is already present and then hands back the slice unchanged;  *)
(* get finds a record by alias.                                            *)
(***************************************************************************)
psHas(slice, alias) == \E i \in 1..Len(slice) : slice[i].alias = alias

psAppend(slice, pi) ==
    IF psHas(slice, pi.alias)
    THEN [ out |-> slice, err |-> ErrPluginKeyExists ]
    ELSE [ out |-> Append(slice, pi), err |-> Nil ]

psGet(slice, alias) ==
    IF psHas(slice, alias)
    THEN [ ok |-> TRUE, pi |-> slice[CHOOSE i \in 1..Len(slice) : slice[i].alias = alias] ]
    ELSE [ ok |-> FALSE, pi |-> NoPlugin ]

(***************************************************************************)
(* The external tools.  What a tool does is an input of the step that runs *)
(* it: an environment record says whether the clone exists and how go get, *)
(* the two checkouts, fetch --tags, pull and go mod download end.          *)
(*   go get:   "ok", "nosuchfile" (the diagnostic is of the "no such file  *)
(*             or directory" class), "fail" (any other diagnostic)         *)
(*   checkout: "ok" (already on the target), "switched", "detached"        *)
(*             (the diagnostic holds "HEAD is now at"), "fail"             *)
(*   pull:     "uptodate", "changed", "fail"                               *)
(***************************************************************************)
GoGetOutcomes == { "ok", "nosuchfile", "fail" }
CheckoutOutcomes == { "ok", "switched", "detached", "fail" }
PullOutcomes == { "uptodate", "changed", "fail" }

Envs ==
    [ srcExists : BOOLEAN, goGet : GoGetOutcomes,
      co1 : CheckoutOutcomes, fetch : { "ok", "fail" }, co2 : CheckoutOutcomes,
      pull : PullOutcomes, deps : { "ok", "fail" } ]

\* one run of an external tool and how it ended
Call(tool, out) == [ tool |-> tool, out |-> out ]

\* gitCheckout: an error for every diagnostic but "Already on" and "Switched to"
gitCheckout(outcome) ==
    IF outcome \in { "ok", "switched" } THEN Nil
    ELSE Error(IF outcome = "detached" THEN "HEAD is now at" ELSE "checkout", 0, Str0)

\* Plugin.updateDependencies
updateDependencies(env) ==
    IF env.deps = "ok" THEN Nil ELSE Error("deps", 0, Str0)

\* setTargetBranch taking a retry that failed for a success that needs a pull
setTargetBranchPullsAfterFailedRetry(env) ==
    LET e1 == gitCheckout(env.co1)
        e2 == gitCheckout(env.co2)
        c1 == Call("checkout", env.co1)
        ft == Call("fetchTags", env.fetch)
        c2 == Call("checkout", env.co2)
        dp == Call("deps", env.deps)
    IN IF e1 = Nil
       THEN [ shouldPull |-> TRUE, err |-> Nil, calls |-> << c1 >> ]
       ELSE IF e1.kind # "HEAD is now at"
       THEN IF env.fetch # "ok"
            THEN [ shouldPull |-> TRUE, err |-> Error("fetchTags", 0, Str0),
                   calls |-> << c1, ft >> ]
            ELSE IF e2 = Nil \/ e2.kind # "HEAD is now at"
            THEN [ shouldPull |-> TRUE, err |-> Nil, calls |-> << c1, ft, c2 >> ]
            ELSE [ shouldPull |-> FALSE, err |-> updateDependencies(env),
                   calls |-> << c1, ft, c2, dp >> ]
       ELSE [ shouldPull |-> FALSE, err |-> updateDependencies(env),
              calls |-> << c1, dp >> ]

\* setTargetBranch taking the detached head of the first checkout for a branch that
\* needs a pull
setTargetBranchPullsDetached(env) ==
    LET e1 == gitCheckout(env.co1)
        e2 == gitCheckout(env.co2)
        c1 == Call("checkout", env.co1)
        ft == Call("fetchTags", env.fetch)
        c2 == Call("checkout", env.co2)
        dp == Call("deps", env.deps)
    IN IF e1 = Nil \/ e1.kind = "HEAD is now at"
       THEN [ shouldPull |-> TRUE, err |-> Nil, calls |-> << c1 >> ]
       ELSE IF env.fetch # "ok"
       THEN [ shouldPull |-> TRUE, err |-> Error("fetchTags", 0, Str0),
              calls |-> << c1, ft >> ]
       ELSE IF e2 = Nil \/ e2.kind # "HEAD is now at"
       THEN [ shouldPull |-> TRUE, err |-> e2, calls |-> << c1, ft, c2 >> ]
       ELSE [ shouldPull |-> FALSE, err |-> updateDependencies(env),
              calls |-> << c1, ft, c2, dp >> ]

\* Plugin.setTargetBranch: whether to pull, the error, the tools run
setTargetBranch(env) ==
    LET e1 == gitCheckout(env.co1)
        e2 == gitCheckout(env.co2)
        c1 == Call("checkout", env.co1)
        ft == Call("fetchTags", env.fetch)
        c2 == Call("checkout", env.co2)
        dp == Call("deps", env.deps)
    IN IF e1 = Nil
       THEN [ shouldPull |-> TRUE, err |-> Nil, calls |-> << c1 >> ]
       ELSE IF e1.kind # "HEAD is now at"
       THEN IF env.fetch # "ok"
            THEN [ shouldPull |-> TRUE, err |-> Error("fetchTags", 0, Str0),
                   calls |-> << c1, ft >> ]
            ELSE IF e2 = Nil \/ e2.kind # "HEAD is now at"
            THEN [ shouldPull |-> TRUE, err |-> e2, calls |-> << c1, ft, c2 >> ]
            ELSE [ shouldPull |-> FALSE, err |-> updateDependencies(env),
                   calls |-> << c1, ft, c2, dp >> ]
       ELSE [ shouldPull |-> FALSE, err |-> updateDependencies(env),
              calls |-> << c1, dp >> ]

\* Plugin.updatePlugin: the error returned, the record's branch afterwards, the
\* tools run in order
updatePlugin(pi, branch, env) ==
    LET get  == IF env.srcExists THEN << >> ELSE << Call("goGet", env.goGet) >>
        br   == IF Len(branch) > 0 THEN branch ELSE pi.branch
        stb  == setTargetBranch(env)
        pre  == IF Len(br) > 0 THEN get \o stb.calls ELSE get
    IN IF Len(pi.gitURL) = 0
       THEN [ err |-> Nil, branch |-> pi.branch, calls |-> << >> ]
       ELSE IF Len(br) > 0 /\ (~stb.shouldPull \/ stb.err # Nil)
       THEN [ err |-> stb.err, branch |-> br, calls |-> pre ]
       ELSE IF env.pull = "uptodate"
       THEN [ err |-> Nil, branch |-> br, calls |-> pre \o << Call("pull", env.pull) >> ]
       ELSE [ err |-> updateDependencies(env), branch |-> br,
              calls |-> pre \o << Call("pull", env.pull), Call("deps", env.deps) >> ]

\* Plugin.build: goBuild's error is handed on as it is
BuildOutcomes == { "ok", "fail" }

build(i, outcome) ==
    IF outcome = "ok" THEN Nil ELSE Error("build", i, Str0)

\* Plugin.test: no toolchain run when the artifact exists and update is unset
TestOutcomes == { "pass", "notests", "fail" }

\* a skip that looks at the artifact alone
testSkippedIgnoresUpdate(pi, present) == pi.filename \in present

testSkipped(pi, present) == pi.filename \in present /\ ~pi.update

\* a test whose failure is logged and not returned
testNeverFails(i, pi, present, outcome) == Nil

test(i, pi, present, outcome) ==
    IF testSkipped(pi, present) THEN Nil
    ELSE IF outcome = "fail" THEN Error("test", i, pi.alias)
    ELSE Nil

\* Plugin.init: RegSymbol, ReadObjs, Load; the code module is stored by Load alone,
\* and the handle p is never assigned
InitOutcomes == { "ok", "regfail", "readfail", "loadfail" }

SymTables ==
    { { << "Close", 1 >>, << "Backend", 2 >> }, { << "Close", 0 >> } }

init(i, pi, outcome, table) ==
    IF outcome = "regfail"
    THEN [ err |-> Error("error registering symbol", i, Str0), pi |-> pi ]
    ELSE IF outcome = "readfail"
    THEN [ err |-> Error("ReadObjs", i, Str0), pi |-> pi ]
    ELSE IF outcome = "loadfail"
    THEN [ err |-> Error("error encountered while loading plugin", i, Str0),
           pi |-> [ pi EXCEPT !.cm = NilCM ] ]
    ELSE [ err |-> Nil, pi |-> [ pi EXCEPT !.cm = [ loaded |-> TRUE, Syms |-> table ] ] ]

\* p.cm.Syms[key]: the address the symbol table maps the name to, 0 for a name it
\* does not hold
SymAddr(Syms, key) ==
    IF \E s \in Syms : s[1] = key THEN (CHOOSE s \in Syms : s[1] = key)[2] ELSE 0

\* the nil plugin.Symbol, and the symbol Lookup makes: the address, as a uintptr, of
\* the local variable ptr that held the symbol's address when Lookup returned
NilSymbol == [ isNil |-> TRUE, held |-> 0 ]
ContainerOf(ptr) == [ isNil |-> FALSE, held |-> ptr ]

\* Plugin.Lookup: the symbol is the container of the address; without a code module
\* p.cm is dereferenced as nil
Lookup(pi, key) ==
    IF ~pi.cm.loaded THEN [ outcome |-> "panic", symbol |-> NilSymbol ]
    ELSE IF SymAddr(pi.cm.Syms, key) = 0 THEN [ outcome |-> "err", symbol |-> NilSymbol ]
    ELSE [ outcome |-> "ok", symbol |-> ContainerOf(SymAddr(pi.cm.Syms, key)) ]

\* What a caller can read through a symbol.  The container is a variable of
\* Lookup's frame that nothing refers to but a uintptr, so that after the return it
\* is dead storage: a read through it gives the address it held or whatever has
\* been written there since.
Addresses == { 0, 1, 2, 3, 4 }

SymbolReads(symbol) == IF symbol.isNil THEN { 0 } ELSE Addresses

\* closePlugin: Lookup on a nil handle dereferences it; a handle without a Close
\* symbol, or with one of another type, closes as nil
closePlugin(h) ==
    IF h.isNil THEN Panicked
    ELSE IF h.Close = "err" THEN Error("close", 0, Str0)
    ELSE Nil

(***************************************************************************)
(* The registry (Plugins) and its callers.                                 *)
(*   ps        the records, in registration order                          *)
(*   closed    the closed flag                                             *)
(*   Branch    the registry-wide branch override                           *)
(*   mu        the holder of the write lock, or "free"                     *)
(*   files     the artifact files that exist                               *)
(*   crashed   an unrecovered panic has ended the process                  *)
(*   th        per caller: the call in progress and the last return        *)
(*   ncalls    the number of calls begun                                   *)
(*   acq       one run of updatePlugin on its own: the record, the branch  *)
(*             override and the tools' outcomes it is given, and what it   *)
(*             returned                                                    *)
(*   fn        one call of a function of the package on its own: the       *)
(*             function, its argument and what it returned                 *)
(*   plugins   the registry of src/plugin.go, which holds plugins that are *)
(*             registered as values and calls their functions              *)
(***************************************************************************)
VARIABLES ps, closed, Branch, mu, files, crashed, th, ncalls, acq, fn, plugins

vars == << ps, closed, Branch, mu, files, crashed, th, ncalls, acq, fn, plugins >>

\* op   the operation called last       pc   where the call stands ("idle": returned)
\* key, upd   the arguments             idx  the loop position
\* n    the length of the slice the call's range loop runs or ran over
\* seen the uniqueKeys map of Retrieve  tasks  the tasks handed to the queue
\* errs the ErrorList                   log  what the call did, record by record
\* ret  the error returned ("none": nothing returned yet)   val  the handle returned
\* post the closed flag as it stood when the call began
\* workers  the number of workers of the queue the call was given
IdleTh ==
    [ op |-> "none", pc |-> "idle", key |-> Str0, upd |-> FALSE, idx |-> 0, n |-> 0,
      seen |-> {}, tasks |-> << >>, errs |-> << >>, log |-> << >>,
      ret |-> NoReturn, val |-> NilHandle, post |-> FALSE, workers |-> 0 ]

\* no run of updatePlugin on its own
NoAcq ==
    [ pi |-> NoPlugin, branch |-> Str0, env |-> CHOOSE e \in Envs : TRUE, done |-> FALSE,
      err |-> NoReturn, resolved |-> Str0, calls |-> << >> ]

\* no call of a function on its own
NoFn == [ op |-> "none", arg |-> << >>, done |-> FALSE, out |-> << >> ]

\* a value of dynamic type ty, and the nil interface value
Val(ty) == [ type |-> ty ]
NilVal == [ type |-> "nil" ]

\* the registry of src/plugin.go as newPlugins makes it: no plugin, open, unlocked.
\*   pm      the plugins by key; a plugin is what Register was given (what its
\*           Backend function returns, how its Close ends) with what the plugin
\*           has seen of its own life: its Backend called, its Close called
\*   closed  the closed flag          mu  the holder of the lock, or "free"
\*   th      per caller: op, pc, the arguments key and dest, the keys the loop of
\*           Close has yet to visit, the key it is at, its ErrorList, the return
\*   ncalls  the number of calls begun
\*   crashed an unrecovered panic has ended the process
NoRegPlugin ==
    [ there |-> FALSE, be |-> NilVal, close |-> "ok", backendCalled |-> FALSE,
      closeCalled |-> FALSE ]

RegIdle ==
    [ op |-> "none", pc |-> "idle", key |-> Str0,
      dest |-> [ how |-> "nil", type |-> "nil", holds |-> NilVal ], todo |-> {},
      cur |-> Str0, errs |-> << >>, ret |-> NoReturn ]

newPlugins ==
    [ pm |-> [ k \in Aliases |-> NoRegPlugin ], closed |-> FALSE, mu |-> "free",
      th |-> [ t \in Callers |-> RegIdle ], ncalls |-> 0, crashed |-> FALSE ]

\* the artifacts found in the root directory: d/a.so, left by an earlier run, so that
\* the artifact of a record of alias a exists before any build and that of alias c
\* does not
InitialFiles == { FilepathJoin(Dir, << "a" >> \o SoExt) }

Init ==
    /\ ps = << >>
    /\ closed = FALSE
    /\ Branch = Str0
    /\ mu = "free"
    /\ files = InitialFiles
    /\ crashed = FALSE
    /\ th = [ t \in Callers |-> IdleTh ]
    /\ ncalls = 0
    /\ acq = NoAcq
    /\ fn = NoFn
    /\ plugins = newPlugins

LockedOps ==
    { "New", "Retrieve", "Build", "BuildAsync", "Test", "TestAsync", "Initialize" }

CanCall(t) == ~crashed /\ th[t].pc = "idle" /\ ncalls < MaxCalls

\* the return of a call: the loop state is dropped, the log and the result stay
Return(t, r) ==
    [ th EXCEPT ![t].pc = "idle", ![t].ret = r, ![t].idx = 0,
                ![t].seen = {}, ![t].tasks = << >>, ![t].errs = << >> ]

\* an unrecovered panic
Panic(t) ==
    [ th EXCEPT ![t].pc = "idle", ![t].ret = Panicked, ![t].idx = 0,
                ![t].seen = {}, ![t].tasks = << >>, ![t].errs = << >> ]

\* the caller's state once it holds the lock; the two async operations also hand one
\* task per record to the queue, which has NumWorkers workers
Locked(t, op, key, upd) ==
    [ th EXCEPT ![t] =
        [ IdleTh EXCEPT !.op = op, !.pc = op, !.key = key, !.upd = upd,
                        !.idx = 1, !.n = Len(ps), !.post = closed,
                        !.tasks = IF op \in { "BuildAsync", "TestAsync" }
                                  THEN [ i \in 1..Len(ps) |-> "queued" ]
                                  ELSE << >>,
                        !.workers = IF op \in { "BuildAsync", "TestAsync" }
                                    THEN NumWorkers ELSE 0 ] ]

\* p.mu.Lock() at the head of New, Build, BuildAsync, Test, TestAsync and Initialize
Lock(t, op, key, upd) ==
    /\ CanCall(t)
    /\ mu = "free"
    /\ op = "New" => Len(ps) < MaxRecords
    /\ mu' = t
    /\ ncalls' = ncalls + 1
    /\ th' = Locked(t, op, key, upd)
    /\ UNCHANGED << plugins, acq, fn, ps, closed, Branch, files, crashed >>

\* the branches the override is set to: none, or x
Branches == { Str0, << "x" >> }

\* p.Branch = b, the client's assignment ahead of its call of Retrieve (Retrieve
\* alone reads the override).  The field is exported and written without the lock;
\* the call then waits at p.mu.Lock().
RetrieveBegin(t, b) ==
    /\ CanCall(t)
    /\ Branch' = b
    /\ ncalls' = ncalls + 1
    /\ th' = [ th EXCEPT ![t] = [ IdleTh EXCEPT !.op = "Retrieve", !.pc = "RetrieveLock",
                                                !.key = b, !.post = closed ] ]
    /\ UNCHANGED << plugins, acq, fn, ps, closed, mu, files, crashed >>

\* p.mu.Lock() at the head of Retrieve
RetrieveLock(t) ==
    /\ ~crashed
    /\ th[t].pc = "RetrieveLock"
    /\ mu = "free"
    /\ mu' = t
    /\ th' = [ th EXCEPT ![t].pc = "Retrieve", ![t].idx = 1, ![t].n = Len(ps) ]
    /\ UNCHANGED << plugins, acq, fn, ps, closed, Branch, files, crashed, ncalls >>

\* Plugins.New, from newPlugin to the deferred Unlock
NewResult(slice, dir, key, upd) ==
    With(newPlugin(dir, key, upd), LAMBDA np :
        IF np.outcome = "panic" THEN [ ps |-> slice, ret |-> Panicked ]
        ELSE IF np.outcome = "err" THEN [ ps |-> slice, ret |-> Error(np.err, 0, Str0) ]
        ELSE With(psAppend(slice, np.pi), LAMBDA app : [ ps |-> app.out, ret |-> app.err ]))

New(t) ==
    /\ ~crashed
    /\ th[t].pc = "New"
    /\ LET r == NewResult(ps, Dir, th[t].key, th[t].upd) IN
         /\ ps' = r.ps
         /\ crashed' = (r.ret = Panicked)
         /\ th' = IF r.ret = Panicked THEN Panic(t) ELSE Return(t, r.ret)
    /\ mu' = "free"
    /\ UNCHANGED << plugins, acq, fn, closed, Branch, files, ncalls >>

\* the call's state after it has logged e
Logged(t, e) == [ th EXCEPT ![t].log = Append(th[t].log, e) ]

\* the call's state after it has logged e and returned r
LoggedReturn(t, e, r) == [ Return(t, r) EXCEPT ![t].log = Append(th[t].log, e) ]

\* what pi.updatePlugin(branch) can return and leave as the record's branch, over
\* all the ways the tools can end
updateResults(pi, branch) ==
    { [ err |-> r.err, branch |-> r.branch ] :
        r \in { updatePlugin(pi, branch, env) : env \in Envs } }

\* Plugins.Retrieve: one pass of the loop, or the return after the last record
Retrieve(t) ==
    /\ ~crashed
    /\ th[t].pc = "Retrieve"
    /\ IF th[t].idx > th[t].n
       THEN /\ th' = Return(t, Nil)
            /\ mu' = "free"
            /\ ps' = ps
       ELSE LET i    == th[t].idx
                pi   == ps[i]
                repo == gitRepoFromURL(pi.gitURL)
            IN IF repo \in th[t].seen \/ isLocal(pi.gitURL)
               THEN /\ th' = [ Logged(t, [ rec |-> i, did |-> "skip" ])
                                 EXCEPT ![t].idx = i + 1, ![t].seen = @ \cup { repo } ]
                    /\ mu' = mu
                    /\ ps' = ps
               ELSE \E r \in updateResults(pi, Branch) :
                        /\ ps' = [ ps EXCEPT ![i].branch = r.branch ]
                        /\ IF r.err # Nil
                           THEN /\ th' = LoggedReturn(t, [ rec |-> i, did |-> "fail" ], r.err)
                                /\ mu' = "free"
                           ELSE /\ th' = [ Logged(t, [ rec |-> i, did |-> "update" ])
                                             EXCEPT ![t].idx = i + 1,
                                                    ![t].seen = @ \cup { repo } ]
                                /\ mu' = mu
    /\ UNCHANGED << plugins, acq, fn, closed, Branch, files, crashed, ncalls >>

\* a loop that goes on after an error
loopExitNever(err) == FALSE

\* the early return of the sequential loops: if err != nil { return }
loopExit(err) == err # Nil

\* Plugins.Build: one pass of the loop, or the return after the last record
Build(t) ==
    /\ ~crashed
    /\ th[t].pc = "Build"
    /\ IF th[t].idx > th[t].n
       THEN /\ th' = Return(t, Nil)
            /\ mu' = "free"
            /\ files' = files
       ELSE \E outcome \in BuildOutcomes :
              LET i   == th[t].idx
                  err == build(i, outcome)
              IN /\ files' = IF outcome = "ok" THEN files \cup { ps[i].filename } ELSE files
                 /\ IF loopExit(err)
                    THEN /\ th' = LoggedReturn(t, [ rec |-> i, did |-> outcome ], err)
                         /\ mu' = "free"
                    ELSE /\ th' = [ Logged(t, [ rec |-> i, did |-> outcome ])
                                      EXCEPT ![t].idx = i + 1 ]
                         /\ mu' = mu
    /\ UNCHANGED << plugins, acq, fn, ps, closed, Branch, crashed, ncalls >>

\* what a test is logged as: "skip" when it returned before goTest, and otherwise
\* how its one run of goTest ended
testDid(pi, outcome) == IF testSkipped(pi, files) THEN "skip" ELSE outcome

\* Plugins.Test: one pass of the loop, or the return after the last record
Test(t) ==
    /\ ~crashed
    /\ th[t].pc = "Test"
    /\ IF th[t].idx > th[t].n
       THEN /\ th' = Return(t, Nil)
            /\ mu' = "free"
       ELSE \E outcome \in TestOutcomes :
              LET i   == th[t].idx
                  err == test(i, ps[i], files, outcome)
              IN IF loopExit(err)
                 THEN /\ th' = LoggedReturn(t, [ rec |-> i, did |-> testDid(ps[i], outcome) ], err)
                      /\ mu' = "free"
                 ELSE /\ th' = [ Logged(t, [ rec |-> i, did |-> testDid(ps[i], outcome) ])
                                   EXCEPT ![t].idx = i + 1 ]
                      /\ mu' = mu
    /\ UNCHANGED << plugins, acq, fn, ps, closed, Branch, files, crashed, ncalls >>

\* Plugins.Initialize: one pass of the loop, or the return after the last record.
\* ReadObjs can read only an artifact that exists.
Initialize(t) ==
    /\ ~crashed
    /\ th[t].pc = "Initialize"
    /\ IF th[t].idx > th[t].n
       THEN /\ th' = Return(t, Nil)
            /\ mu' = "free"
            /\ ps' = ps
       ELSE \E outcome \in InitOutcomes, table \in SymTables :
              LET i == th[t].idx
                  r == init(i, ps[i], outcome, table)
              IN /\ outcome \in { "ok", "loadfail" } => ps[i].filename \in files
                 /\ ps' = [ ps EXCEPT ![i] = r.pi ]
                 /\ IF loopExit(r.err)
                    THEN /\ th' = LoggedReturn(t, [ rec |-> i, did |-> outcome ], r.err)
                         /\ mu' = "free"
                    ELSE /\ th' = [ Logged(t, [ rec |-> i, did |-> outcome ])
                                      EXCEPT ![t].idx = i + 1 ]
                         /\ mu' = mu
    /\ UNCHANGED << plugins, acq, fn, closed, Branch, files, crashed, ncalls >>

(***************************************************************************)
(* BuildAsync and TestAsync.  The queue runs at most as many tasks at a    *)
(* time as it has workers, in any order; a task runs the record's build or test, pushes the  *)
(* result on the ErrorList (Push takes the list's own lock) and calls      *)
(* wg.Done.                                                                *)
(***************************************************************************)
Running(tasks) == { i \in 1..Len(tasks) : tasks[i] = "running" }

\* a worker takes a queued task
TaskStart(t, i) ==
    /\ ~crashed
    /\ th[t].pc \in { "BuildAsync", "TestAsync" }
    /\ i \in 1..Len(th[t].tasks)
    /\ th[t].tasks[i] = "queued"
    /\ Cardinality(Running(th[t].tasks)) < th[t].workers
    /\ th' = [ th EXCEPT ![t].tasks[i] = "running" ]
    /\ UNCHANGED << plugins, acq, fn, ps, closed, Branch, mu, files, crashed, ncalls >>

\* the task of BuildAsync: errs.Push(pi.build()), then wg.Done()
BuildAsyncTask(t, i) ==
    /\ ~crashed
    /\ th[t].pc = "BuildAsync"
    /\ i \in 1..Len(th[t].tasks)
    /\ th[t].tasks[i] = "running"
    /\ \E outcome \in BuildOutcomes :
         /\ files' = IF outcome = "ok" THEN files \cup { ps[i].filename } ELSE files
         /\ th' = [ Logged(t, [ rec |-> i, did |-> outcome ])
                      EXCEPT ![t].tasks[i] = "done",
                             ![t].errs = Push(@, build(i, outcome)) ]
    /\ UNCHANGED << plugins, acq, fn, ps, closed, Branch, mu, crashed, ncalls >>

\* the task of TestAsync: errs.Push(pi.test()), then wg.Done()
TestAsyncTask(t, i) ==
    /\ ~crashed
    /\ th[t].pc = "TestAsync"
    /\ i \in 1..Len(th[t].tasks)
    /\ th[t].tasks[i] = "running"
    /\ \E outcome \in TestOutcomes :
         th' = [ Logged(t, [ rec |-> i, did |-> testDid(ps[i], outcome) ])
                   EXCEPT ![t].tasks[i] = "done",
                          ![t].errs = Push(@, test(i, ps[i], files, outcome)) ]
    /\ UNCHANGED << plugins, acq, fn, ps, closed, Branch, mu, files, crashed, ncalls >>

\* a wait for one Done more than there are tasks (wg.Add(len(p.ps) + 1))
wgWaitOneMore(tasks) ==
    Cardinality({ i \in 1..Len(tasks) : tasks[i] = "done" }) >= Len(tasks) + 1

\* a wait that ends with the first task done
wgWaitAny(tasks) == Len(tasks) = 0 \/ \E i \in 1..Len(tasks) : tasks[i] = "done"

\* wg.Wait(): every task has called Done
wgWait(tasks) == \A i \in 1..Len(tasks) : tasks[i] = "done"

\* BuildAsync after wg.Wait(): return errs.Err()
BuildAsync(t) ==
    /\ ~crashed
    /\ th[t].pc = "BuildAsync"
    /\ wgWait(th[t].tasks)
    /\ th' = Return(t, ErrOf(th[t].errs))
    /\ mu' = "free"
    /\ UNCHANGED << plugins, acq, fn, ps, closed, Branch, files, crashed, ncalls >>

\* TestAsync after wg.Wait(): return errs.Err()
TestAsync(t) ==
    /\ ~crashed
    /\ th[t].pc = "TestAsync"
    /\ wgWait(th[t].tasks)
    /\ th' = Return(t, ErrOf(th[t].errs))
    /\ mu' = "free"
    /\ UNCHANGED << plugins, acq, fn, ps, closed, Branch, files, crashed, ncalls >>

(***************************************************************************)
(* The point queries.  Get holds the read lock for its whole body, which   *)
(* writes nothing, so it is one step; Backend calls Get and then works on  *)
(* the handle without the lock.  No record ever holds a handle other than  *)
(* nil, and Lookup on the nil handle dereferences it.                      *)
(***************************************************************************)
\* The types of the binding: the concrete types T1 and T2, the interface I1, whose
\* methods T1 has and T2 has not, and the empty interface Any.
ConcreteTypes == { "T1", "T2" }
InterfaceTypes == { "I1", "Any" }

\* reflect's Type.Implements on the types above
Implements(ty, iface) == iface = "Any" \/ (iface = "I1" /\ ty = "T1")

\* The end of Backend, from reflect.ValueOf(backend) to elem.Set(beVal).  dest.how
\* tells what the caller passed: "nil" (nothing), "value" (a value that is no
\* pointer), "nilptr" (a nil pointer to a variable of dest.type) or "ptr" (a pointer
\* to a variable of dest.type, which holds dest.holds); be is what the plugin's
\* Backend function returned.  Value.Elem panics on anything but a pointer,
\* Value.Type panics on the Value of nil, Type.Implements panics on a type that is
\* no interface.
bindBackend(dest, be) ==
    IF dest.how \in { "nil", "value" }
    THEN [ outcome |-> "panic", expected |-> "", received |-> "", holds |-> dest.holds ]
    ELSE IF dest.how = "nilptr"
    THEN [ outcome |-> "ErrNotAddressable", expected |-> "", received |-> "",
           holds |-> dest.holds ]
    ELSE IF be = NilVal
    THEN [ outcome |-> "panic", expected |-> "", received |-> "", holds |-> dest.holds ]
    ELSE IF dest.type = be.type
    THEN [ outcome |-> "ok", expected |-> "", received |-> "", holds |-> be ]
    ELSE IF dest.type \notin InterfaceTypes
    THEN [ outcome |-> "panic", expected |-> "", received |-> "", holds |-> dest.holds ]
    ELSE IF Implements(be.type, dest.type)
    THEN [ outcome |-> "ok", expected |-> "", received |-> "", holds |-> be ]
    ELSE [ outcome |-> "invalid type", expected |-> dest.type, received |-> be.type,
           holds |-> dest.holds ]

GetResult(slice, key) ==
    LET g == psGet(slice, key)
    IN IF ~g.ok THEN [ err |-> Error("ErrPluginNotLoaded", 0, key), val |-> NilHandle ]
       ELSE [ err |-> Nil, val |-> g.pi.p ]

Get(t, key) ==
    /\ CanCall(t)
    /\ mu = "free"
    /\ LET r == GetResult(ps, key) IN
         th' = [ th EXCEPT ![t] = [ IdleTh EXCEPT !.op = "Get", !.key = key, !.ret = r.err,
                                                  !.val = r.val, !.post = closed ] ]
    /\ ncalls' = ncalls + 1
    /\ UNCHANGED << plugins, acq, fn, ps, closed, Branch, mu, files, crashed >>

\* the head of Backend: p.Get(key), under the read lock, and the return of its error
BackendGet(t, key) ==
    /\ CanCall(t)
    /\ mu = "free"
    /\ LET r == GetResult(ps, key) IN
         th' = [ th EXCEPT ![t] =
                   [ IdleTh EXCEPT !.op = "Backend", !.key = key, !.post = closed,
                                   !.val = r.val,
                                   !.pc = IF r.err # Nil THEN "idle" ELSE "Backend",
                                   !.ret = IF r.err # Nil THEN r.err ELSE NoReturn ] ]
    /\ ncalls' = ncalls + 1
    /\ UNCHANGED << plugins, acq, fn, ps, closed, Branch, mu, files, crashed >>

\* plugin.Plugin.Lookup of the standard library on a handle of the model, which
\* carries no symbol but Close
ErrSymbolNotFound == Error("symbol not found", 0, Str0)

\* the rest of Backend, with no lock held: pi.Lookup("Backend") dereferences the
\* handle Get returned, which panics on the nil handle; on another handle the
\* error of Lookup is returned
Backend(t) ==
    /\ ~crashed
    /\ th[t].pc = "Backend"
    /\ crashed' = th[t].val.isNil
    /\ th' = IF th[t].val.isNil THEN Panic(t) ELSE Return(t, ErrSymbolNotFound)
    /\ UNCHANGED << plugins, acq, fn, ps, closed, Branch, mu, files, ncalls >>

(***************************************************************************)
(* Plugins.Close.  The lock is taken and released at once (Unlock is not   *)
(* deferred), so the rest of the body runs without it.                     *)
(***************************************************************************)
\* p.mu.Lock(); p.mu.Unlock()
CloseEnter(t) ==
    /\ CanCall(t)
    /\ mu = "free"
    /\ th' = [ th EXCEPT ![t] = [ IdleTh EXCEPT !.op = "Close", !.pc = "CloseCheck",
                                                !.post = closed ] ]
    /\ ncalls' = ncalls + 1
    /\ UNCHANGED << plugins, acq, fn, ps, closed, Branch, mu, files, crashed >>

\* if p.closed { return ErrIsClosed }
CloseCheck(t) ==
    /\ ~crashed
    /\ th[t].pc = "CloseCheck"
    /\ th' = IF closed THEN Return(t, ErrIsClosed)
             ELSE [ th EXCEPT ![t].pc = "CloseRange" ]
    /\ UNCHANGED << plugins, acq, fn, ps, closed, Branch, mu, files, crashed, ncalls >>

\* for _, pi := range p.ps: the slice is read once, here, after the notification
CloseRange(t) ==
    /\ ~crashed
    /\ th[t].pc = "CloseRange"
    /\ th' = [ th EXCEPT ![t].pc = "CloseLoop", ![t].idx = 1, ![t].n = Len(ps) ]
    /\ UNCHANGED << plugins, acq, fn, ps, closed, Branch, mu, files, crashed, ncalls >>

\* one pass of the loop: closePlugin(pi.p), its error pushed with the alias
CloseLoop(t) ==
    /\ ~crashed
    /\ th[t].pc = "CloseLoop"
    /\ th[t].idx <= th[t].n
    /\ LET i == th[t].idx
           r == closePlugin(ps[i].p)
       IN /\ crashed' = (r = Panicked)
          /\ th' = IF r = Panicked THEN Panic(t)
                   ELSE [ Logged(t, [ rec |-> i, did |-> IF r = Nil THEN "ok" ELSE "fail" ])
                            EXCEPT ![t].idx = i + 1,
                                   ![t].errs = IF r = Nil THEN @
                                               ELSE Append(@, Error("error closing", i, ps[i].alias)) ]
    /\ UNCHANGED << plugins, acq, fn, ps, closed, Branch, mu, files, ncalls >>

\* p.closed = true; return errs.Err()
CloseEnd(t) ==
    /\ ~crashed
    /\ th[t].pc = "CloseLoop"
    /\ th[t].idx > th[t].n
    /\ closed' = TRUE
    /\ th' = Return(t, ErrOf(th[t].errs))
    /\ UNCHANGED << plugins, acq, fn, ps, Branch, mu, files, crashed, ncalls >>

Next ==
    \/ \E t \in Callers :
            \/ \E reg \in Registrations : Lock(t, "New", reg[1], reg[2])
            \/ \E op \in LockedOps \ { "New", "Retrieve" } : Lock(t, op, Str0, FALSE)
            \/ \E b \in Branches : RetrieveBegin(t, b)
            \/ RetrieveLock(t)
            \/ New(t)
            \/ Retrieve(t)
            \/ Build(t)
            \/ Test(t)
            \/ Initialize(t)
            \/ \E i \in 1..MaxRecords : TaskStart(t, i)
            \/ \E i \in 1..MaxRecords : BuildAsyncTask(t, i)
            \/ \E i \in 1..MaxRecords : TestAsyncTask(t, i)
            \/ BuildAsync(t)
            \/ TestAsync(t)
            \/ \E key \in Aliases : Get(t, key)
            \/ \E key \in Aliases : BackendGet(t, key)
            \/ Backend(t)
            \/ CloseEnter(t)
            \/ CloseCheck(t)
            \/ CloseRange(t)
            \/ CloseLoop(t)
            \/ CloseEnd(t)

Spec == Init /\ [][Next]_vars

(***************************************************************************)
(* The registry with the scheduling of the asynchronous operations: the    *)
(* queue starts every task it was handed as soon as a worker is free,      *)
(* every task that runs ends, and the caller goes on once wg.Wait() lets   *)
(* it.  Nothing makes a client begin a call, and nothing is assumed of the *)
(* other operations.                                                       *)
(***************************************************************************)
\* a step of the queue on the tasks caller t has handed to it
QueueStep(t) ==
    \E i \in 1..MaxRecords :
        \/ TaskStart(t, i)
        \/ BuildAsyncTask(t, i)
        \/ TestAsyncTask(t, i)

\* a step of the asynchronous operation caller t is inside
AsyncStep(t) == QueueStep(t) \/ BuildAsync(t) \/ TestAsync(t)

Fairness == \A t \in Callers : WF_vars(AsyncStep(t))

\* the smaller queues a client passes to BuildAsync and TestAsync, by their number
\* of workers
QueueWorkers == 1..(NumWorkers - 1)

\* BuildAsync(q) and TestAsync(q) with a queue of w workers: p.mu.Lock(), wg.Add, and
\* one task per record handed to the queue
AsyncBegin(t, op, w) ==
    /\ CanCall(t)
    /\ mu = "free"
    /\ mu' = t
    /\ ncalls' = ncalls + 1
    /\ th' = [ Locked(t, op, Str0, FALSE) EXCEPT ![t].workers = w ]
    /\ UNCHANGED << plugins, acq, fn, ps, closed, Branch, files, crashed >>

NextLive ==
    \/ Next
    \/ \E t \in Callers, op \in { "BuildAsync", "TestAsync" }, w \in QueueWorkers :
            AsyncBegin(t, op, w)

SpecLive == Init /\ [][NextLive]_vars /\ Fairness

(***************************************************************************)
(* updatePlugin on its own: a record as newPlugin makes it, a branch       *)
(* override and the outcomes of the tools are given, and the call is made. *)
(***************************************************************************)
NewRecords ==
    { np.pi : np \in { r \in { newPlugin(Dir, reg[1], reg[2]) : reg \in Registrations } :
                          r.outcome = "ok" } }

InitAcq ==
    /\ ps = << >>
    /\ closed = FALSE
    /\ Branch = Str0
    /\ mu = "free"
    /\ files = {}
    /\ crashed = FALSE
    /\ th = [ t \in Callers |-> IdleTh ]
    /\ ncalls = 0
    /\ acq \in { [ NoAcq EXCEPT !.pi = pi, !.branch = b, !.env = env ] :
                    pi \in NewRecords, b \in Branches, env \in Envs }
    /\ fn = NoFn
    /\ plugins = newPlugins

\* pi.updatePlugin(branch)
AcqUpdate ==
    /\ ~acq.done
    /\ LET r == updatePlugin(acq.pi, acq.branch, acq.env) IN
         acq' = [ acq EXCEPT !.done = TRUE, !.err = r.err, !.resolved = r.branch,
                             !.calls = r.calls ]
    /\ UNCHANGED << plugins, ps, closed, Branch, mu, files, crashed, th, ncalls, fn >>

NextAcq == AcqUpdate

SpecAcq == InitAcq /\ [][NextAcq]_vars


(***************************************************************************)
(* The functions of the package on their own: an argument is given and the *)
(* call is made.  An argument that was put together from parts carries the *)
(* parts along, so that what the function returns can be held against      *)
(* them.                                                                   *)
(***************************************************************************)
AsDelim == << " ", "a", "s", " " >>

\* keys "<source> as <alias>"
KeySources == { << "h", "/", "u", "/", "a" >>, << "h", "/", "u", "/", "a", "-", "b", "@", "v", "1" >>, << "h", "/", "u", "/", "c", "#", "d", "e", "v" >>, << ".", "/", "l", "/", "f", ".", "s", "o" >> }
KeyAliases == { << "a" >>, << "z", "-", "1" >>, << "x", " ", "a", "s", " ", "y" >> }

AliasedKeys ==
    { [ key |-> src \o AsDelim \o al, source |-> src, alias |-> al ] :
        src \in KeySources, al \in KeyAliases }

\* repository references host/user/repo, host/user/repo@version and
\* host/user/repo#branch; alias is the repository segment up to its first hyphen
RepoNames ==
    { [ repo |-> << "p" >>, alias |-> << "p" >> ], [ repo |-> << "m", "y", "-", "p" >>, alias |-> << "m", "y" >> ] }
Versions == { << "v", "1" >>, << "v", "-", "1" >>, << "v", "/", "2" >>, << "v", "@", "1" >> }
BranchNames == { << "d", "e", "v" >>, << "f", "/", "x" >>, << "b", "-", "1" >> }
RepoRoot == << "h", "/", "u", "/" >>

RepoRefs ==
    { [ kind |-> "repo", key |-> RepoRoot \o r.repo, alias |-> r.alias, target |-> Str0 ] :
        r \in RepoNames }
    \cup { [ kind |-> "repo", key |-> RepoRoot \o r.repo \o << "@" >> \o v,
             alias |-> r.alias, target |-> v ] : r \in RepoNames, v \in Versions }
    \cup { [ kind |-> "repo", key |-> RepoRoot \o r.repo \o << "#" >> \o b,
             alias |-> r.alias, target |-> b ] : r \in RepoNames, b \in BranchNames }

\* local artifact paths; alias is the base name without its extension
LocalPaths ==
    { [ kind |-> "local", key |-> << ".", "/", "l", "/", "f", ".", "s", "o" >>, alias |-> << "f" >>, target |-> Str0 ],
      [ kind |-> "local", key |-> << ".", "/", "g", ".", "s", "o" >>, alias |-> << "g" >>, target |-> Str0 ] }

\* keys of neither shape: a host with one path segment, a host alone, a file of
\* another extension, and a name with a blank
OtherKeys ==
    { [ kind |-> "other", key |-> k, alias |-> Str0, target |-> Str0 ] :
        k \in { << "h", "/", "u" >>, << "h" >>, << "f", ".", "t", "x", "t" >>, KeyBad } }

SourceKeys == RepoRefs \cup LocalPaths \cup OtherKeys

\* handler keys alias.method, alias.method(a1,...,an) and the latter without its
\* closing parenthesis
HandlerArgs == { << >>, << << "1" >> >>, << << "1" >>, << "2" >> >>, << << "1", ".", "5" >> >> }
HandlerMethods == { << "m" >>, << "g", "e", "t" >> }

HandlerKeys ==
    { [ shape |-> "bare", key |-> << "a" >> \o << "." >> \o m, alias |-> << "a" >>,
        method |-> m, args |-> << >> ] : m \in HandlerMethods }
    \cup { [ shape |-> "call",
             key |-> << "a" >> \o << "." >> \o m \o << "(" >> \o JoinStr(as, << "," >>) \o << ")" >>,
             alias |-> << "a" >>, method |-> m, args |-> as ] :
             m \in HandlerMethods, as \in HandlerArgs \ { << >> } }
    \cup { [ shape |-> "open",
             key |-> << "a" >> \o << "." >> \o m \o << "(" >> \o JoinStr(as, << "," >>),
             alias |-> << "a" >>, method |-> m, args |-> as ] :
             m \in HandlerMethods, as \in HandlerArgs }

\* destinations and backend values of the binding
Destinations ==
    { [ how |-> "nil", type |-> "nil", holds |-> NilVal ] }
    \cup { [ how |-> "value", type |-> ty, holds |-> Val(ty) ] : ty \in ConcreteTypes }
    \cup { [ how |-> h, type |-> ty, holds |-> Val(ty) ] :
             h \in { "nilptr", "ptr" }, ty \in ConcreteTypes }
    \cup { [ how |-> h, type |-> ty, holds |-> v ] :
             h \in { "nilptr", "ptr" }, ty \in InterfaceTypes, v \in { NilVal, Val("T1") } }

BackendValues == { NilVal } \cup { Val(ty) : ty \in ConcreteTypes }

Bindings == { [ dest |-> d, be |-> b ] : d \in Destinations, b \in BackendValues }

\* symbol tables of a loaded module and the names looked up
LoadedTables ==
    SymTables \cup { { << "Backend", 3 >> }, { << "Close", 4 >>, << "Backend", 0 >> } }
SymbolNames == { "Close", "Backend", "Init" }

Lookups == { [ table |-> tb, name |-> nm ] : tb \in LoadedTables, nm \in SymbolNames }

InitFn ==
    /\ ps = << >>
    /\ closed = FALSE
    /\ Branch = Str0
    /\ mu = "free"
    /\ files = {}
    /\ crashed = FALSE
    /\ th = [ t \in Callers |-> IdleTh ]
    /\ ncalls = 0
    /\ acq = NoAcq
    /\ plugins = newPlugins
    /\ fn \in { [ NoFn EXCEPT !.op = "ParseKey", !.arg = a ] : a \in AliasedKeys }
         \cup { [ NoFn EXCEPT !.op = "New", !.arg = a ] : a \in SourceKeys }
         \cup { [ NoFn EXCEPT !.op = "getHandlerParts", !.arg = a ] : a \in HandlerKeys }
         \cup { [ NoFn EXCEPT !.op = "Backend", !.arg = a ] : a \in Bindings }
         \cup { [ NoFn EXCEPT !.op = "Lookup", !.arg = a ] : a \in Lookups }

\* the call of op is still to be made
FnCall(op) == fn.op = op /\ ~fn.done

\* ParseKey(key)
FnParseKey ==
    /\ FnCall("ParseKey")
    /\ fn' = [ fn EXCEPT !.done = TRUE, !.out = ParseKey(fn.arg.key) ]
    /\ UNCHANGED << plugins, ps, closed, Branch, mu, files, crashed, th, ncalls, acq >>

\* New(key, false) on a registry without records
FnNew ==
    /\ FnCall("New")
    /\ fn' = [ fn EXCEPT !.done = TRUE, !.out = NewResult(<< >>, Dir, fn.arg.key, FALSE) ]
    /\ UNCHANGED << plugins, ps, closed, Branch, mu, files, crashed, th, ncalls, acq >>

\* getHandlerParts(handlerKey)
FnGetHandlerParts ==
    /\ FnCall("getHandlerParts")
    /\ fn' = [ fn EXCEPT !.done = TRUE, !.out = getHandlerParts(fn.arg.key) ]
    /\ UNCHANGED << plugins, ps, closed, Branch, mu, files, crashed, th, ncalls, acq >>

\* the binding at the end of Backend
FnBackend ==
    /\ FnCall("Backend")
    /\ fn' = [ fn EXCEPT !.done = TRUE, !.out = bindBackend(fn.arg.dest, fn.arg.be) ]
    /\ UNCHANGED << plugins, ps, closed, Branch, mu, files, crashed, th, ncalls, acq >>

\* Lookup(name) on a record whose load has succeeded, and what the caller reads
\* through the symbol returned
FnLookup ==
    /\ FnCall("Lookup")
    /\ LET loaded == init(1, newPlugin(Dir, KeyA, FALSE).pi, "ok", fn.arg.table).pi
           r      == Lookup(loaded, fn.arg.name)
       IN \E v \in SymbolReads(r.symbol) :
            fn' = [ fn EXCEPT !.done = TRUE,
                              !.out = [ outcome |-> r.outcome, symbol |-> r.symbol,
                                        read |-> v ] ]
    /\ UNCHANGED << plugins, ps, closed, Branch, mu, files, crashed, th, ncalls, acq >>

NextFn ==
    \/ FnParseKey
    \/ FnNew
    \/ FnGetHandlerParts
    \/ FnBackend
    \/ FnLookup

SpecFn == InitFn /\ [][NextFn]_vars

(***************************************************************************)
(* The registry of src/plugin.go.  A plugin is registered as a value under *)
(* the key the client gives; every method holds the lock for its whole     *)
(* body (defer Unlock), and Backend and Close call the functions of the    *)
(* plugins while they hold it.                                             *)
(***************************************************************************)
MaxRegCalls == 4

\* the plugins a client registers: what Backend() returns and how Close() ends
RegPlugins ==
    { [ NoRegPlugin EXCEPT !.there = TRUE, !.be = Val("T1"), !.close = "ok" ],
      [ NoRegPlugin EXCEPT !.there = TRUE, !.be = Val("T2"), !.close = "err" ] }

\* the destinations a client hands to Backend: a pointer to a T1, a pointer to an
\* I1, and a T1 passed by value
RegDestinations ==
    { [ how |-> "ptr", type |-> "T1", holds |-> Val("T1") ],
      [ how |-> "ptr", type |-> "I1", holds |-> NilVal ],
      [ how |-> "value", type |-> "T1", holds |-> Val("T1") ] }

CanCallReg(t) ==
    ~plugins.crashed /\ plugins.th[t].pc = "idle" /\ plugins.ncalls < MaxRegCalls

\* what the variables of the other registry do in a step of this one
RegOnly == UNCHANGED << ps, closed, Branch, mu, files, crashed, th, ncalls, acq, fn >>

\* the end of a call: the deferred Unlock, and the return of r
RegReturn(t, r) ==
    [ plugins EXCEPT !.mu = "free", !.th[t].pc = "idle", !.th[t].ret = r,
                     !.th[t].todo = {}, !.th[t].cur = Str0, !.th[t].errs = << >> ]

\* a panic inside a call: the deferred Unlock runs and the process ends
RegPanic(t) == [ RegReturn(t, Panicked) EXCEPT !.crashed = TRUE ]

\* Plugins.Register, whole: the body makes no call that could block
Register(t, key, pi) ==
    /\ CanCallReg(t)
    /\ plugins.mu = "free"
    /\ LET r == IF plugins.closed THEN ErrIsClosed
                ELSE IF plugins.pm[key].there THEN Error("has already been loaded", 0, key)
                ELSE Nil
       IN plugins' = [ plugins EXCEPT
                         !.ncalls = @ + 1,
                         !.pm[key] = IF r = Nil THEN pi ELSE @,
                         !.th[t] = [ RegIdle EXCEPT !.op = "Register", !.key = key,
                                                    !.ret = r ] ]
    /\ RegOnly

\* Plugins.Get, whole, under the read lock
RegGet(t, key) ==
    /\ CanCallReg(t)
    /\ plugins.mu = "free"
    /\ LET r == IF plugins.closed THEN ErrIsClosed
                ELSE IF ~plugins.pm[key].there THEN Error("has not been registered", 0, key)
                ELSE Nil
       IN plugins' = [ plugins EXCEPT
                         !.ncalls = @ + 1,
                         !.th[t] = [ RegIdle EXCEPT !.op = "Get", !.key = key, !.ret = r ] ]
    /\ RegOnly

\* Plugins.Loaded, whole, under the read lock: a copy of the map is returned
RegLoaded(t) ==
    /\ CanCallReg(t)
    /\ plugins.mu = "free"
    /\ plugins' = [ plugins EXCEPT
                      !.ncalls = @ + 1,
                      !.th[t] = [ RegIdle EXCEPT !.op = "Loaded", !.ret = Nil ] ]
    /\ RegOnly

\* Plugins.Test and Plugins.TestAsync, whole: the lock, and the error returned
RegTest(t, op) ==
    /\ CanCallReg(t)
    /\ plugins.mu = "free"
    /\ plugins' = [ plugins EXCEPT
                      !.ncalls = @ + 1,
                      !.th[t] = [ RegIdle EXCEPT
                                    !.op = op,
                                    !.ret = Error("testing has not yet been implemented",
                                                  0, Str0) ] ]
    /\ RegOnly

\* p.mu.Lock() at the head of Backend and of Close
RegLock(t, op, key, dest) ==
    /\ CanCallReg(t)
    /\ plugins.mu = "free"
    /\ plugins' = [ plugins EXCEPT
                      !.mu = t,
                      !.ncalls = @ + 1,
                      !.th[t] = [ RegIdle EXCEPT !.op = op, !.pc = op, !.key = key,
                                                 !.dest = dest ] ]
    /\ RegOnly

\* a Backend that goes on whatever the closed flag says
backendRefusedNever(isClosed) == FALSE

\* if p.closed { return errors.ErrIsClosed } in Backend
backendRefused(isClosed) == isClosed

\* Backend up to the call of the plugin: the closed check, the lookup of the key,
\* refVal.Elem() and elem.CanSet(), then pi.Backend() is entered
RegBackendCheck(t) ==
    /\ ~plugins.crashed
    /\ plugins.th[t].pc = "Backend"
    /\ LET key  == plugins.th[t].key
           dest == plugins.th[t].dest
       IN plugins' =
            IF backendRefused(plugins.closed) THEN RegReturn(t, ErrIsClosed)
            ELSE IF ~plugins.pm[key].there
            THEN RegReturn(t, Error("has not been registered", 0, key))
            ELSE IF dest.how # "ptr"
            THEN IF bindBackend(dest, NilVal).outcome = "panic" THEN RegPanic(t)
                 ELSE RegReturn(t, Error("ErrNotAddressable", 0, Str0))
            ELSE [ plugins EXCEPT !.th[t].pc = "BackendCall",
                                  !.pm[key].backendCalled = TRUE ]
    /\ RegOnly

\* pi.Backend() returns, and the value is bound to the destination
RegBackendCall(t) ==
    /\ ~plugins.crashed
    /\ plugins.th[t].pc = "BackendCall"
    /\ LET b == bindBackend(plugins.th[t].dest, plugins.pm[plugins.th[t].key].be)
       IN plugins' =
            IF b.outcome = "panic" THEN RegPanic(t)
            ELSE IF b.outcome = "ok"
            THEN [ RegReturn(t, Nil) EXCEPT !.th[t].dest.holds = b.holds ]
            ELSE RegReturn(t, Error(b.outcome, 0, Str0))
    /\ RegOnly

\* Close: the closed check, and the range over p.pm begins
RegCloseCheck(t) ==
    /\ ~plugins.crashed
    /\ plugins.th[t].pc = "Close"
    /\ plugins' =
         IF plugins.closed THEN RegReturn(t, ErrIsClosed)
         ELSE [ plugins EXCEPT !.th[t].pc = "CloseLoop",
                               !.th[t].todo = { k \in Aliases : plugins.pm[k].there } ]
    /\ RegOnly

\* the loop comes to the plugin of key k, in the order the map gives, and pi.Close()
\* is entered
RegCloseCall(t, k) ==
    /\ ~plugins.crashed
    /\ plugins.th[t].pc = "CloseLoop"
    /\ k \in plugins.th[t].todo
    /\ plugins' = [ plugins EXCEPT !.th[t].pc = "CloseCall", !.th[t].cur = k,
                                   !.pm[k].closeCalled = TRUE ]
    /\ RegOnly

\* pi.Close() returns; its error is pushed with the key
RegCloseReturn(t) ==
    /\ ~plugins.crashed
    /\ plugins.th[t].pc = "CloseCall"
    /\ LET k == plugins.th[t].cur
       IN plugins' = [ plugins EXCEPT
                         !.th[t].pc = "CloseLoop",
                         !.th[t].todo = @ \ { k },
                         !.th[t].cur = Str0,
                         !.th[t].errs = IF plugins.pm[k].close = "ok" THEN @
                                        ELSE Append(@, Error("error closing", 0, k)) ]
    /\ RegOnly

\* p.closed = true; return errs.Err()
RegCloseEnd(t) ==
    /\ ~plugins.crashed
    /\ plugins.th[t].pc = "CloseLoop"
    /\ plugins.th[t].todo = {}
    /\ plugins' = [ RegReturn(t, ErrOf(plugins.th[t].errs)) EXCEPT !.closed = TRUE ]
    /\ RegOnly

NextReg ==
    \E t \in Callers :
        \/ \E key \in Aliases, pi \in RegPlugins : Register(t, key, pi)
        \/ \E key \in Aliases : RegGet(t, key)
        \/ RegLoaded(t)
        \/ \E op \in { "Test", "TestAsync" } : RegTest(t, op)
        \/ \E key \in Aliases, dest \in RegDestinations : RegLock(t, "Backend", key, dest)
        \/ RegLock(t, "Close", Str0, RegIdle.dest)
        \/ RegBackendCheck(t)
        \/ RegBackendCall(t)
        \/ RegCloseCheck(t)
        \/ \E k \in Aliases : RegCloseCall(t, k)
        \/ RegCloseReturn(t)
        \/ RegCloseEnd(t)

SpecReg == Init /\ [][NextReg]_vars

(***************************************************************************)
(* Properties of the registry.                                             *)
(***************************************************************************)
\* the call of op that caller t made last has ended
Ended(t, op) == th[t].op = op /\ th[t].pc = "idle" /\ th[t].ret # NoReturn

\* the call of op that caller t made last has returned to its caller
Returned(t, op) == Ended(t, op) /\ th[t].ret # Panicked

\* caller t is the only one that has called anything
Sequential(t) == \A u \in Callers \ { t } : th[u] = IdleTh

\* the records a call's log names, in the order it handled them
LogRecs(log) == [ j \in 1..Len(log) |-> log[j].rec ]

\* the records a call's log names with outcome did
LogDid(log, did) == { log[j].rec : j \in { k \in 1..Len(log) : log[k].did = did } }

\* the log names each of the records 1..n once
EachOnce(log, n) ==
    /\ Len(log) = n
    /\ \A i \in 1..n : \E j \in 1..n : log[j].rec = i

\* the aggregate ret reports the records of failed, each once, as errors of kind
AggregateOf(ret, failed, kind) ==
    IF failed = {} THEN ret = Nil
    ELSE /\ ret.kind = "list"
         /\ Len(ret.errs) = Cardinality(failed)
         /\ \A i \in failed : \E j \in 1..Len(ret.errs) :
                ret.errs[j].kind = kind /\ ret.errs[j].rec = i

RegistryOps == LockedOps \cup { "Get", "Backend" }

\* C1: a call of New, Retrieve, Build, BuildAsync, Test, TestAsync, Initialize, Get
\* or Backend that begins after a Close has completed changes neither the records
\* nor the artifacts nor the closed flag, and returns the closed-registry error.
C1_ClosedRegistryRefusesCalls ==
    [][ \A t \in Callers :
          ( th'[t] # th[t] /\ th'[t].post /\ th'[t].op \in RegistryOps )
            => /\ UNCHANGED << ps, files, closed >>
               /\ th'[t].pc = "idle" => th'[t].ret = ErrIsClosed ]_vars

\* C2: with Close called in sequence by one caller, the call that finds the registry
\* open closes every record in order, returns the aggregate of the close errors and
\* leaves the registry closed; the call that finds it closed returns the
\* closed-registry error and closes no record.
C2_CloseTwiceInSequence ==
    \A t \in Callers :
        ( Sequential(t) /\ Ended(t, "Close") )
          => IF th[t].post
             THEN th[t].ret = ErrIsClosed /\ th[t].log = << >>
             ELSE /\ closed
                  /\ LogRecs(th[t].log) = [ j \in 1..Len(ps) |-> j ]
                  /\ AggregateOf(th[t].ret, LogDid(th[t].log, "fail"), "error closing")

\* C3: whatever the interleaving of the Close calls, no record is closed by more
\* than one of them, and at most one of them returns something other than the
\* closed-registry error.
C3_ConcurrentCloseOnce ==
    /\ \A i \in 1..Len(ps) :
          Cardinality({ t \in Callers : th[t].op = "Close" /\ i \in LogDid(th[t].log, "ok")
                                          \cup LogDid(th[t].log, "fail") }) <= 1
    /\ Cardinality({ t \in Callers : Returned(t, "Close") /\ th[t].ret # ErrIsClosed }) <= 1

\* caller t is inside the body of a batch operation
InBody(t) == th[t].pc \in LockedOps \cup { "CloseCheck", "CloseRange", "CloseLoop" }

\* C4: no two callers are inside the bodies of New, Retrieve, Build, BuildAsync,
\* Test, TestAsync, Initialize or Close at once.
C4_BatchOpsExclusive ==
    Cardinality({ t \in Callers : InBody(t) }) <= 1

\* C7: a Close that found the registry open has, when it ends, attempted the close
\* of every record and set the closed flag.
C7_FirstCloseClosesAll ==
    \A t \in Callers :
        ( Ended(t, "Close") /\ th[t].ret # ErrIsClosed )
          => closed /\ EachOnce(th[t].log, th[t].n)

\* C8: when BuildAsync returns, every record has been built once; the error is nil
\* when no build failed and otherwise lists the failed builds, each once; and the
\* artifact of every record built with success exists.
C8_BuildAsyncAggregates ==
    \A t \in Callers :
        Returned(t, "BuildAsync")
          => /\ EachOnce(th[t].log, th[t].n)
             /\ LogDid(th[t].log, "ok") \cup LogDid(th[t].log, "fail") = 1..th[t].n
             /\ AggregateOf(th[t].ret, LogDid(th[t].log, "fail"), "build")
             /\ \A i \in LogDid(th[t].log, "ok") : ps[i].filename \in files

\* BuildAsync over two records has returned, one build failed and one succeeded
C8_Witness ==
    \E t \in Callers :
        /\ Returned(t, "BuildAsync")
        /\ th[t].n = 2
        /\ Cardinality(LogDid(th[t].log, "fail")) = 1
        /\ Cardinality(LogDid(th[t].log, "ok")) = 1

\* C9: when Build returns, it has built the records in registration order up to the
\* first failure: the records before it are built, its error is the one returned,
\* and no record after it was attempted; without a failure every record is built
\* and nil is returned.
C9_BuildStopsAtFirstFailure ==
    \A t \in Callers :
        Returned(t, "Build")
          => LET log == th[t].log
                 k   == Len(log)
             IN /\ k <= th[t].n
                /\ LogRecs(log) = [ j \in 1..k |-> j ]
                /\ \A j \in 1..(k - 1) : log[j].did = "ok" /\ ps[j].filename \in files
                /\ IF th[t].ret = Nil
                   THEN k = th[t].n /\ \A j \in 1..k : log[j].did = "ok"
                   ELSE k >= 1 /\ log[k].did = "fail" /\ th[t].ret = Error("build", k, Str0)

\* Build over two records has returned the error of the first, the second untouched
C9_Witness ==
    \E t \in Callers :
        /\ Returned(t, "Build")
        /\ th[t].n = 2
        /\ LogRecs(th[t].log) = << 1 >>
        /\ th[t].ret = Error("build", 1, Str0)

\* the outcomes of a test that is no failure
TestSuccess == { "skip", "pass", "notests" }

\* C10: when Test returns, it has tested the records in registration order up to
\* the first failure, whose error it returns, and none after it; when TestAsync
\* returns, every record has been tested once and the error lists the failed
\* tests, each once, and is nil when none failed.
C10_TestContract ==
    \A t \in Callers :
        /\ Returned(t, "Test")
             => LET log == th[t].log
                    k   == Len(log)
                IN /\ k <= th[t].n
                   /\ LogRecs(log) = [ j \in 1..k |-> j ]
                   /\ \A j \in 1..(k - 1) : log[j].did \in TestSuccess
                   /\ IF th[t].ret = Nil
                      THEN k = th[t].n /\ \A j \in 1..k : log[j].did \in TestSuccess
                      ELSE /\ k >= 1
                           /\ log[k].did = "fail"
                           /\ th[t].ret = Error("test", k, ps[k].alias)
        /\ Returned(t, "TestAsync")
             => /\ EachOnce(th[t].log, th[t].n)
                /\ \A j \in 1..Len(th[t].log) : th[t].log[j].did \in TestSuccess \cup { "fail" }
                /\ AggregateOf(th[t].ret, LogDid(th[t].log, "fail"), "test")

\* TestAsync over two records has returned, the test of the first failed and the
\* test of the second, run all the same, did not
C10_Witness ==
    \E t \in Callers :
        /\ Returned(t, "TestAsync")
        /\ th[t].n = 2
        /\ LogDid(th[t].log, "fail") = { 1 }
        /\ LogDid(th[t].log, "pass") \cup LogDid(th[t].log, "notests") = { 2 }

\* caller t, inside op, has just handled one more record
Handled(t, op) ==
    /\ th[t].op = op
    /\ th'[t].op = op
    /\ Len(th'[t].log) = Len(th[t].log) + 1

\* the entry caller t has just logged
LastEntry(t) == th'[t].log[Len(th'[t].log)]

\* C11: a test of a record whose artifact exists and whose update flag is unset runs
\* no goTest and yields no error; a test of any other record runs goTest once.
C11_TestSkipsBuiltRecords ==
    [][ \A t \in Callers :
          ( Handled(t, "Test") \/ Handled(t, "TestAsync") )
            => LET e  == LastEntry(t)
                   pi == ps[e.rec]
               IN IF pi.filename \in files /\ ~pi.update
                  THEN /\ e.did = "skip"
                       /\ th'[t].errs = th[t].errs
                       /\ th'[t].ret = NoReturn
                  ELSE e.did \in TestOutcomes ]_vars

\* a Test has skipped the first record, whose artifact exists and whose update flag
\* is unset, and has run goTest for the second, whose artifact does not exist
C11_Witness ==
    \E t \in Callers :
        /\ th[t].op = "Test"
        /\ Len(th[t].log) = 2
        /\ th[t].log[1].did = "skip"
        /\ ps[1].filename \in files /\ ~ps[1].update
        /\ th[t].log[2].did \in TestOutcomes
        /\ ps[2].filename \notin files

\* C12: when Initialize returns, it has loaded the records in registration order up
\* to the first failure and attempted none after it; it returns nil when every load
\* succeeded and an error otherwise, and the record whose load failed is then
\* without a loaded code module.
C12_InitializeStopsAtFirstFailure ==
    [][ \A t \in Callers :
          ( th[t].pc = "Initialize" /\ th'[t].pc = "idle" )
            => LET log == th'[t].log
                   k   == Len(log)
               IN /\ k <= th[t].n
                  /\ LogRecs(log) = [ j \in 1..k |-> j ]
                  /\ \A j \in 1..(k - 1) : log[j].did = "ok"
                  /\ IF th'[t].ret = Nil
                     THEN k = th[t].n /\ \A j \in 1..k : log[j].did = "ok"
                     ELSE /\ k >= 1
                          /\ log[k].did # "ok"
                          /\ ~ps'[k].cm.loaded ]_vars

\* C13: a Get that returns no error returns a handle that is not nil; a Get of an
\* alias that no record has returns the plugin-not-loaded error.
C13_GetOnlyLoaded ==
    \A t \in Callers :
        Returned(t, "Get")
          => /\ th[t].ret = Nil => ~th[t].val.isNil
             /\ ~psHas(ps, th[t].key) => th[t].ret = Error("ErrPluginNotLoaded", 0, th[t].key)

\* C14: a record on which Initialize has attempted a load was built before, so that
\* its artifact exists.
C14_LoadOnlyAfterBuild ==
    \A t \in Callers :
        th[t].op = "Initialize"
          => \A j \in 1..Len(th[t].log) : ps[th[t].log[j].rec].filename \in files

\* the host, user and repository segments of a source path
RepoSegments(gitURL) ==
    LET comps == Split(gitURL, << "/" >>)
    IN SubSeq(comps, 1, IF Len(comps) < 3 THEN Len(comps) ELSE 3)

\* C15: within one Retrieve the records are taken in registration order, and a
\* record is passed over exactly when its source is local or an earlier record of
\* the call has the same host/user/repo; every other record is acquired, so that no
\* repository is acquired twice.
C15_RetrieveOncePerRepository ==
    \A t \in Callers :
        th[t].op = "Retrieve"
          => LET log == th[t].log
             IN /\ LogRecs(log) = [ j \in 1..Len(log) |-> j ]
                /\ \A j \in 1..Len(log) :
                     ( log[j].did = "skip" )
                       <=> \/ isLocal(ps[j].gitURL)
                           \/ \E k \in 1..(j - 1) :
                                RepoSegments(ps[k].gitURL) = RepoSegments(ps[j].gitURL)
                /\ \A j, k \in 1..Len(log) :
                     ( j # k /\ log[j].did # "skip" /\ log[k].did # "skip" )
                       => RepoSegments(ps[j].gitURL) # RepoSegments(ps[k].gitURL)

\* a Retrieve has acquired the first record and passed over the second, which has
\* another source path in the same repository
C15_Witness ==
    \E t \in Callers :
        /\ Returned(t, "Retrieve")
        /\ Len(th[t].log) = 2
        /\ th[t].log[1].did = "update"
        /\ th[t].log[2].did = "skip"
        /\ ps[1].gitURL # ps[2].gitURL

\* the branch or version of the import key a record was registered under
OwnBranch(pi) == newPlugin(Dir, pi.importKey, pi.update).pi.branch

\* C16: a record that Retrieve acquires is resolved against the override when the
\* override is set, and against the branch or version of its own import key when
\* the override is not set.
C16_OverrideLastsOneRetrieve ==
    [][ \A t \in Callers :
          ( Handled(t, "Retrieve") /\ LastEntry(t).did # "skip" )
            => LET i == LastEntry(t).rec
               IN ps'[i].branch = IF Len(Branch) > 0 THEN Branch ELSE OwnBranch(ps[i]) ]_vars

(***************************************************************************)
(* Properties of updatePlugin.                                             *)
(***************************************************************************)
\* the positions of the runs of tool in the calls made
RunsOf(tool) == { j \in 1..Len(acq.calls) : acq.calls[j].tool = tool }

\* the positions of the runs of tool that ended as out
RunsEnded(tool, out) == { j \in RunsOf(tool) : acq.calls[j].out = out }

\* C17: an updatePlugin whose pull failed returns an error, however the refresh of
\* the dependencies after it ended.
C17_PullFailureIsReturned ==
    ( acq.done /\ RunsEnded("pull", "fail") # {} ) => acq.err # Nil

\* the first checkout of the call failed for an unrecognized reason
FirstCheckoutFailed ==
    RunsOf("checkout") # {}
      /\ acq.calls[CHOOSE j \in RunsOf("checkout") : \A k \in RunsOf("checkout") : j <= k].out
           = "fail"

\* what holds of every updatePlugin: at most two checkouts and one fetch of the
\* tags, the fetch right after a checkout that failed for an unrecognized reason,
\* no second checkout without such a failure, and after two such failures an error
\* and no pull
CheckoutRetryFrame ==
    /\ Cardinality(RunsOf("checkout")) <= 2
    /\ Cardinality(RunsOf("fetchTags")) <= 1
    /\ \A j \in RunsOf("fetchTags") : j > 1 /\ acq.calls[j - 1] = Call("checkout", "fail")
    /\ ~FirstCheckoutFailed => Cardinality(RunsOf("checkout")) <= 1
    /\ Cardinality(RunsEnded("checkout", "fail")) = 2
         => acq.err # Nil /\ RunsOf("pull") = {}

\* C18 as stated: whenever the first checkout fails for an unrecognized reason the
\* tags are fetched and the checkout is retried once, within the frame above.
C18_RetryAfterEveryFailure ==
    acq.done
      => /\ CheckoutRetryFrame
         /\ FirstCheckoutFailed
              => Cardinality(RunsOf("fetchTags")) = 1 /\ Cardinality(RunsOf("checkout")) = 2

\* C18: when the first checkout fails for an unrecognized reason the tags are
\* fetched; if the fetch succeeds the checkout is retried once, right after it, and
\* if the fetch fails there is no retry and no pull and an error is returned; at
\* most two checkouts and one fetch are made, a fetch only right after such a
\* failure, and when the retry fails for an unrecognized reason too the error is
\* returned and no pull is made.
C18_RetryAfterFetchedTags ==
    acq.done
      => /\ CheckoutRetryFrame
         /\ FirstCheckoutFailed => Cardinality(RunsOf("fetchTags")) = 1
         /\ \A j \in RunsEnded("fetchTags", "ok") :
               /\ Cardinality(RunsOf("checkout")) = 2
               /\ j < Len(acq.calls) /\ acq.calls[j + 1].tool = "checkout"
         /\ RunsEnded("fetchTags", "fail") # {}
              => /\ Cardinality(RunsOf("checkout")) = 1
                 /\ RunsOf("pull") = {}
                 /\ acq.err # Nil

\* the checkout failed, the tags were fetched, the retry failed as well: an error
\* and no pull
C18_Witness ==
    /\ acq.done
    /\ RunsEnded("fetchTags", "ok") # {}
    /\ Cardinality(RunsEnded("checkout", "fail")) = 2
    /\ RunsOf("pull") = {}
    /\ acq.err # Nil

\* C19: when a checkout, the first or the retry, ends with the detached-head
\* diagnostic, no pull is made, the dependencies are refreshed once, right after
\* that checkout and as the last step, and the error returned is that of the
\* refresh: nil when it succeeds.
C19_DetachedHeadNeedsNoPull ==
    ( acq.done /\ RunsEnded("checkout", "detached") # {} )
      => /\ RunsOf("pull") = {}
         /\ Cardinality(RunsOf("deps")) = 1
         /\ \A j \in RunsEnded("checkout", "detached") :
               j + 1 = Len(acq.calls) /\ acq.calls[j + 1].tool = "deps"
         /\ acq.err = IF RunsEnded("deps", "ok") # {} THEN Nil ELSE Error("deps", 0, Str0)

\* the retry after the fetch of the tags ended with a detached head, the refresh of
\* the dependencies succeeded: no pull and no error
C19_Witness ==
    /\ acq.done
    /\ RunsEnded("fetchTags", "ok") # {}
    /\ Cardinality(RunsOf("checkout")) = 2
    /\ RunsEnded("checkout", "detached") # {}
    /\ RunsOf("pull") = {}
    /\ acq.err = Nil

\* C20: go get runs only when the clone does not exist, and when it fails for a
\* reason other than "no such file or directory" updatePlugin returns an error.
C20_CloneFailureIsReturned ==
    acq.done
      => /\ RunsOf("goGet") # {} => ~acq.env.srcExists
         /\ RunsEnded("goGet", "fail") # {} => acq.err # Nil

(***************************************************************************)
(* Properties of the functions on their own.                               *)
(***************************************************************************)
\* the function op has been called and has ended
FnDone(op) == fn.op = op /\ fn.done

\* the backend value fits the destination's declared type
Fits(dest, be) ==
    /\ be # NilVal
    /\ \/ dest.type = be.type
       \/ dest.type \in InterfaceTypes /\ Implements(be.type, dest.type)

\* C21: the binding ends in exactly one of three outcomes and never in a panic: a
\* destination that is no pointer to a variable gets destination-not-writable; a
\* writable destination whose declared type is the backend value's type, or an
\* interface that type satisfies, is populated; any other backend value that is not
\* nil gets the type mismatch naming both types; on either error the destination
\* is unchanged.
C21_BindingClassifies ==
    FnDone("Backend")
      => LET d == fn.arg.dest
             b == fn.arg.be
             r == fn.out
         IN /\ r.outcome # "panic"
            /\ d.how # "ptr" => r.outcome = "ErrNotAddressable" /\ r.holds = d.holds
            /\ ( d.how = "ptr" /\ Fits(d, b) ) => r.outcome = "ok" /\ r.holds = b
            /\ ( d.how = "ptr" /\ ~Fits(d, b) /\ b # NilVal )
                 => /\ r.outcome = "invalid type"
                    /\ r.expected = d.type
                    /\ r.received = b.type
                    /\ r.holds = d.holds

\* C22: for a key "<source> as <alias>", ParseKey returns <source> as the source and
\* exactly <alias> as the alias, whatever the source looks like and whatever the
\* alias holds.
C22_ExplicitAliasReturned ==
    FnDone("ParseKey")
      => /\ fn.out.newKey = fn.arg.source
         /\ fn.out.alias = fn.arg.alias

\* C23: a repository reference host/user/repo, host/user/repo@version or
\* host/user/repo#branch without explicit alias registers a record whose alias is
\* the repository segment up to its first hyphen and whose target is the version or
\* the branch, also when the version or branch holds '/', '-' or '@'.
C23_DefaultAliasAndTarget ==
    ( FnDone("New") /\ fn.arg.kind = "repo" )
      => /\ fn.out.ret = Nil
         /\ Len(fn.out.ps) = 1
         /\ fn.out.ps[1].alias = fn.arg.alias
         /\ fn.out.ps[1].branch = fn.arg.target

\* C24: a local artifact path registers a record of source kind local: its alias is
\* the file's base name without the extension, its artifact path is the path given,
\* and it has no repository URL.
C24_LocalArtifactVerbatim ==
    ( FnDone("New") /\ fn.arg.kind = "local" )
      => /\ fn.out.ret = Nil
         /\ Len(fn.out.ps) = 1
         /\ fn.out.ps[1].alias = fn.arg.alias
         /\ fn.out.ps[1].filename = fn.arg.key
         /\ fn.out.ps[1].gitURL = Str0

\* C25: getHandlerParts ends in one of two outcomes and never in a panic: for a key
\* alias.method or alias.method(a1,...,an) it returns the alias, the method and the
\* arguments a1..an in order, also for arguments that hold a '.'; for a key whose
\* opening parenthesis has no closing one, alias.method( included, it returns the
\* expected-ending-parenthesis error.
C25_HandlerPartsOrParenError ==
    FnDone("getHandlerParts")
      => /\ fn.out.outcome # "panic"
         /\ fn.arg.shape \in { "bare", "call" }
              => /\ fn.out.outcome = "ok"
                 /\ fn.out.key = fn.arg.alias
                 /\ fn.out.handler = fn.arg.method
                 /\ fn.out.args = fn.arg.args
         /\ fn.arg.shape = "open" => fn.out.outcome = "err"

\* C26: registering a key that is neither a local artifact path nor a repository
\* reference with host, user and repository returns the unsupported-source error
\* and appends no record; the registration ends in no other way.
C26_UnsupportedSourceRejected ==
    ( FnDone("New") /\ fn.arg.kind = "other" )
      => /\ fn.out.ret = Error("plugin type not supported", 0, Str0)
         /\ fn.out.ps = << >>

(***************************************************************************)
(* Further properties of the registry.                                     *)
(***************************************************************************)
\* the phase of each batch operation
PhaseOf(op) ==
    CASE op = "Retrieve" -> "acquire"
      [] op \in { "Build", "BuildAsync" } -> "build"
      [] op \in { "Test", "TestAsync" } -> "test"
      [] op = "Initialize" -> "load"
      [] op = "Close" -> "close"
      [] OTHER -> "none"

\* the phase the text of an error names: "<alias> failed test", "error closing
\* <alias> (<filename>)", "error encountered while loading plugin"; the other
\* errors are the diagnostics of the tools and of goloader as they come
PhaseNamed(e) ==
    CASE e.kind = "test" -> "test"
      [] e.kind = "error closing" -> "close"
      [] e.kind = "error encountered while loading plugin" -> "load"
      [] OTHER -> "none"

\* the errors of single records that a returned error holds
RecordErrors(ret) == IF ret.kind = "list" THEN ret.errs ELSE << ret >>

\* C27: every error a batch operation returns because a record failed names the
\* alias of that record and the phase of the operation, in the sequential and in
\* the aggregated variants.
C27_ErrorsNameAliasAndPhase ==
    \A t \in Callers :
        ( Returned(t, th[t].op) /\ PhaseOf(th[t].op) # "none"
            /\ th[t].ret \notin { Nil, ErrIsClosed } )
          => LET es == RecordErrors(th[t].ret)
             IN \A j \in 1..Len(es) :
                  /\ es[j].rec \in 1..Len(ps)
                  /\ es[j].alias = ps[es[j].rec].alias
                  /\ PhaseNamed(es[j]) = PhaseOf(th[t].op)

\* caller t enters pi.Backend() of the plugin of its key in this step
BackendEntered(t) ==
    plugins.th[t].pc = "Backend" /\ plugins'.th[t].pc = "BackendCall"

\* caller t enters pi.Close() of the plugin of key k in this step
CloseEntered(t, k) ==
    /\ plugins.th[t].pc = "CloseLoop"
    /\ plugins'.th[t].pc = "CloseCall"
    /\ plugins'.th[t].cur = k

\* C28: a plugin's Backend function is not invoked after the registry's Close has
\* invoked that plugin's Close, nor while that Close runs, and the plugin's Close
\* is not invoked while its Backend function runs, whatever the interleaving of
\* the callers of Backend and Close.
C28_BackendNeverAfterClose ==
    [][ \A t \in Callers :
          /\ BackendEntered(t)
               => /\ ~plugins.pm[plugins.th[t].key].closeCalled
                  /\ \A u \in Callers \ { t } :
                       ~( plugins.th[u].pc = "CloseCall"
                            /\ plugins.th[u].cur = plugins.th[t].key )
          /\ \A k \in Aliases :
               CloseEntered(t, k)
                 => \A u \in Callers \ { t } :
                      ~( plugins.th[u].pc = "BackendCall" /\ plugins.th[u].key = k ) ]_vars

\* the Backend function of a plugin was invoked, then its Close by the registry's
\* Close, and a Backend call made for the plugin after that was refused
C28_Witness ==
    \E k \in Aliases, t \in Callers :
        /\ plugins.pm[k].backendCalled
        /\ plugins.pm[k].closeCalled
        /\ plugins.th[t].op = "Backend"
        /\ plugins.th[t].key = k
        /\ plugins.th[t].pc = "idle"
        /\ plugins.th[t].ret = ErrIsClosed

\* caller t returns from a Retrieve that was called without branch override
RetrieveReturns(t) ==
    /\ th[t].op = "Retrieve"
    /\ th[t].pc = "Retrieve"
    /\ th'[t].pc = "idle"
    /\ th[t].key = Str0

\* C29: when a Retrieve without branch override returns success, every record of a
\* repository whose import key names a branch or version has been acquired in the
\* call, so that its repository was checked out on that branch or version, also a
\* record that shares its repository with an earlier record.
C29_RetrieveChecksOutEveryTarget ==
    [][ \A t \in Callers :
          ( RetrieveReturns(t) /\ th'[t].ret = Nil )
            => \A j \in 1..Len(ps) :
                 ( Len(OwnBranch(ps[j])) > 0 /\ ~isLocal(ps[j].gitURL) )
                   => j \in LogDid(th'[t].log, "update") ]_vars

(***************************************************************************)
(* A property of Lookup.                                                   *)
(***************************************************************************)
\* the symbol table of the call maps its name to an address that is not zero
SymbolPresent == SymAddr(fn.arg.table, fn.arg.name) # 0

\* C30: after a successful load, Lookup succeeds exactly for the names the symbol
\* table maps to a nonzero address, and the symbol it returns gives that address;
\* for a name that is absent or mapped to zero it reports symbol-not-found and
\* returns no symbol.
C30_LookupReturnsSymbol ==
    FnDone("Lookup")
      => IF SymbolPresent
         THEN /\ fn.out.outcome = "ok"
              /\ ~fn.out.symbol.isNil
              /\ fn.out.read = SymAddr(fn.arg.table, fn.arg.name)
         ELSE /\ fn.out.outcome = "err"
              /\ fn.out.symbol.isNil

(***************************************************************************)
(* A property of the registry with its scheduling.                         *)
(***************************************************************************)
\* caller t is inside BuildAsync or TestAsync
InAsync(t) == th[t].pc \in { "BuildAsync", "TestAsync" }

\* C31: with every task ending and the queue running every task it was handed, a
\* BuildAsync or TestAsync that has begun returns and no longer holds the registry
\* lock, for a registry without records and for more records than workers as well,
\* unless a panic of another caller has ended the process before.
C31_AsyncReturnsAndUnlocks ==
    \A t \in Callers :
        InAsync(t) ~> ( ( th[t].pc = "idle" /\ mu # t ) \/ crashed )

\* an asynchronous operation over two records has returned from a queue of one
\* worker, and the lock is free
C31_Witness ==
    \E t \in Callers :
        /\ th[t].op \in { "BuildAsync", "TestAsync" }
        /\ Returned(t, th[t].op)
        /\ th[t].workers = 1
        /\ Len(th[t].log) = 2
        /\ mu = "free"

====
